---- MODULE Spec2Model ----
(***************************************************************************)
(* State-machine model of smol-hash: the HashRing of pkg/consistenthash    *)
(* (consistent hashing with virtual nodes and bounded loads) and its Node. *)
(*                                                                         *)
(* Ring positions are the real values of HashRing.hash (first four bytes   *)
(* of SHA-256, big endian) for the node identifiers and keys of the model. *)
(* The identifiers are chosen so that every value is below 2^31 and so     *)
(* that "node139931#1" and "node229626#0" collide on position 289114231.   *)
(*                                                                         *)
(* The module also models the simple ring of the repository's first        *)
(* program, ConsistentHash, whose positions are 32-bit FNV-1a values.      *)
(***************************************************************************)
EXTENDS Integers, Sequences, FiniteSets, TLC

\* ------------------------------------------------------------------ bounds
MaxNodes == 2
MaxKeys == 2
VirtualNodes == 2
MaxDrift == 1
MaxLeak == 0
AssignNodes == 2
AssignKeys == 7
TopoNodes == 3
TopoKeys == 1
Callers == 2
Replicas == 2
SimpleNodes == 2
SimpleKeys == 2
MaxTotalLoad == 3

\* ------------------------------------------------------- program constants
\* Config.LoadFactor = 1.25 = LoadFactorNum / LoadFactorDen
LoadFactorNum == 5
LoadFactorDen == 4

NodeName == <<"node139931", "node229626", "node2", "node5">>
KeyName == <<"key-2", "key-29", "key-8", "key-5", "key-9", "key-11", "key-12", "key-14">>

NodeIDs == {NodeName[i] : i \in 1..MaxNodes}
Keys == {KeyName[i] : i \in 1..MaxKeys}
AssignNodeIDs == {NodeName[i] : i \in 1..AssignNodes}
AssignKeySet == {KeyName[i] : i \in 1..AssignKeys}
TopoNodeIDs == {NodeName[i] : i \in 1..TopoNodes}
TopoKeySet == {KeyName[i] : i \in 1..TopoKeys}
\* the keys a caller may look up
LookupKeys == {KeyName[i] : i \in DOMAIN KeyName}

\* node names and keys of the simple ring, from its main()
SimpleNodeName == <<"server1", "server3", "server4">>
SimpleKeyName == <<"user:1001", "user:100", "session:abc", "user:1002">>
SimpleNodeNames == {SimpleNodeName[i] : i \in 1..SimpleNodes}
SimpleKeySet == {SimpleKeyName[i] : i \in 1..SimpleKeys}

\* fnv.New32a().Sum32() for every string the simple ring hashes
FNV1a ==
    "server1#0" :> 201321882 @@
    "server1#1" :> 218099501 @@
    "server1#2" :> 167766644 @@
    "server3#0" :> 361327616 @@
    "server3#1" :> 378105235 @@
    "server3#2" :> 394882854 @@
    "server4#0" :> 1018080745 @@
    "server4#1" :> 1001303126 @@
    "server4#2" :> 984525507 @@
    "user:1001" :> 1333533686 @@
    "user:1002" :> 1316756067 @@
    "user:100" :> 259671491 @@
    "session:abc" :> 611582553

\* ConsistentHash.hash
chHash(key) == FNV1a[key]

\* binary.BigEndian.Uint32(sha256(s)[:4]) for every string the model hashes
SHA256Prefix ==
    "node2#0" :> 1318171736 @@
    "node2#1" :> 2006372159 @@
    "node2#2" :> 1405772184 @@
    "node139931#0" :> 845672030 @@
    "node139931#1" :> 289114231 @@
    "node139931#2" :> 2015772312 @@
    "node229626#0" :> 289114231 @@
    "node229626#1" :> 1429272567 @@
    "node229626#2" :> 1032922041 @@
    "node5#0" :> 2023140231 @@
    "node5#1" :> 946230155 @@
    "node5#2" :> 621826562 @@
    "key-2" :> 2083958953 @@
    "key-14" :> 1651554084 @@
    "key-8" :> 788089447 @@
    "key-5" :> 71184533 @@
    "key-9" :> 441277387 @@
    "key-11" :> 242171519 @@
    "key-12" :> 2280401 @@
    "key-29" :> 1337549740

hash(key) == SHA256Prefix[key]

\* fmt.Sprintf("%s#%d", node.ID, i)
VirtualKey(id, i) == id \o "#" \o ToString(i)

\* results of a call: the error it returned, or a panic that unwound it
ErrNil == "nil"
ErrAlreadyExists == "already exists"
ErrNotFound == "not found"
ErrEmpty == "no nodes available"
Panic == "panic"
\* a nil *Node / the zero value of a missing map entry
NilNode == "<nil>"
NoID == ""

VARIABLES nodes, ring, ringMap, totalKeys, keyAssignment, last, snap, fallbackTaken,
          mu, pc, callArg, callErr, callRet, ch, chLast

vars == <<nodes, ring, ringMap, totalKeys, keyAssignment, last, snap, fallbackTaken,
          mu, pc, callArg, callErr, callRet, ch, chLast>>

\* the fields of the HashRing and the record of its last call
hashRing == <<nodes, ring, ringMap, totalKeys, keyAssignment, last, snap, fallbackTaken>>

\* the simple ring: ch is the ConsistentHash (ring, ringMap, nodes), chLast
\* its last call with the loads before it
simple == <<ch, chLast>>

\* the goroutines of the concurrent calls: mu is the holder of h.mu (0 when
\* unlocked), pc the position of each goroutine in its call, callArg the node
\* ID or key they pass, callErr the error and callRet the node ID each call
\* returned
goroutines == <<mu, pc, callArg, callErr, callRet>>

Range(s) == {s[i] : i \in DOMAIN s}

\* ------------------------------------------------------------------- Node
NewNode == [Load |-> 0, MaxLoad |-> 0]

CanAcceptKeyInclusive(n) == IF n.MaxLoad = 0 THEN TRUE ELSE n.Load <= n.MaxLoad

CanAcceptKey(n) == IF n.MaxLoad = 0 THEN TRUE ELSE n.Load < n.MaxLoad

IncrementLoad(n) == [n EXCEPT !.Load = @ + 1]

DecrementLoadAboveOne(n) == IF n.Load > 1 THEN [n EXCEPT !.Load = @ - 1] ELSE n

DecrementLoad(n) == IF n.Load > 0 THEN [n EXCEPT !.Load = @ - 1] ELSE n

ResetLoad(n) == [n EXCEPT !.Load = 0]

\* --------------------------------------------------------------- HashRing
\* h.ringMap[hashVal]: the zero value "" when the position has no entry
RingMapGet(rm, pos) == IF pos \in DOMAIN rm THEN rm[pos] ELSE NoID

\* sort.Search(n, f) with f(i) = ring[i] >= hashVal; indices are 0-based
RECURSIVE SortSearch(_, _, _, _)
SortSearch(r, hashVal, lo, hi) ==
    IF lo < hi
    THEN LET mid == (lo + hi) \div 2
         IN  IF ~(r[mid + 1] >= hashVal)
             THEN SortSearch(r, hashVal, mid + 1, hi)
             ELSE SortSearch(r, hashVal, lo, mid)
    ELSE lo

search(r, hashVal) ==
    LET idx == SortSearch(r, hashVal, 0, Len(r))
    IN  IF idx >= Len(r) THEN 0 ELSE idx

\* sort.Slice(h.ring, less): the ascending arrangement of the slice
RECURSIVE SortRing(_)
SortRing(r) ==
    IF r = <<>> THEN <<>>
    ELSE LET m == CHOOSE i \in DOMAIN r : \A j \in DOMAIN r : r[i] <= r[j]
         IN  <<r[m]>> \o SortRing(SubSeq(r, 1, m - 1) \o SubSeq(r, m + 1, Len(r)))

\* int(x) of a float64 x = num / den, den > 0: truncation toward zero
TruncDiv(num, den) == IF num >= 0 THEN num \div den ELSE -((-num) \div den)

\* maxLoad of updateMaxLoads: int(avgLoad*loadFactor + 0.5), 0 replaced by 1
MaxLoadFor(total, n) ==
    LET maxLoad == TruncDiv(2 * total * LoadFactorNum + n * LoadFactorDen,
                            2 * n * LoadFactorDen)
    IN  IF maxLoad = 0 THEN 1 ELSE maxLoad

updateMaxLoads(ns, total) ==
    IF DOMAIN ns = {} THEN ns
    ELSE [id \in DOMAIN ns |->
            [ns[id] EXCEPT !.MaxLoad = MaxLoadFor(total, Cardinality(DOMAIN ns))]]

\* getNodeForHash made to respect the load bound
getNodeForHashIfAccepting(ns, r, rm, hashVal) ==
    IF Len(r) = 0 THEN Panic
    ELSE LET nodeID == RingMapGet(rm, r[search(r, hashVal) + 1])
         IN  IF nodeID \in DOMAIN ns /\ CanAcceptKey(ns[nodeID]) THEN nodeID ELSE NilNode

\* getNodeForHash: the ID of the node returned, NilNode for a nil *Node,
\* Panic when h.ring[idx] indexes an empty ring
getNodeForHash(ns, r, rm, hashVal) ==
    IF Len(r) = 0 THEN Panic
    ELSE LET nodeID == RingMapGet(rm, r[search(r, hashVal) + 1])
         IN  IF nodeID \in DOMAIN ns THEN nodeID ELSE NilNode

\* rebalanceKeys leaving the assignments as they are
rebalanceKeysSkipped(ns, r, rm, ka) ==
    {[nodes |-> ns, keyAssignment |-> ka, panic |-> FALSE]}

\* rebalanceKeys: the possible results.  The loop ranges over a Go map, so
\* when some key makes getNodeForHash(...).ID panic, any subset of the other
\* keys may have been counted before it; newAssignment is then dropped.
rebalanceKeys(ns, r, rm, ka) ==
    LET owner(k) == getNodeForHash(ns, r, rm, hash(k))
        good == {k \in DOMAIN ka : owner(k) \in DOMAIN ns}
        counted(S) == [id \in DOMAIN ns |->
                         [ResetLoad(ns[id]) EXCEPT
                            !.Load = Cardinality({k \in S : owner(k) = id})]]
    IN  IF good = DOMAIN ka
        THEN {[nodes |-> counted(good),
               keyAssignment |-> [k \in DOMAIN ka |-> owner(k)],
               panic |-> FALSE]}
        ELSE {[nodes |-> counted(S), keyAssignment |-> ka, panic |-> TRUE] :
                 S \in SUBSET good}

\* the loop of AddNode without the sort that follows it
AddVirtualNodesUnsorted(r, rm, id) ==
    LET added == [i \in 1..VirtualNodes |-> hash(VirtualKey(id, i - 1))]
    IN  [ring |-> r \o added,
         ringMap |-> [p \in DOMAIN rm \cup Range(added) |->
                        IF p \in Range(added) THEN id ELSE rm[p]]]

\* the loop of AddNode that appends the virtual nodes
AddVirtualNodes(r, rm, id) ==
    LET added == [i \in 1..VirtualNodes |-> hash(VirtualKey(id, i - 1))]
    IN  [ring |-> SortRing(r \o added),
         ringMap |-> [p \in DOMAIN rm \cup Range(added) |->
                        IF p \in Range(added) THEN id ELSE rm[p]]]

\* RemoveNode's filter of h.ring losing one more position
RemoveVirtualNodesDropLast(r, i, rm, nodeID, newRing) ==
    LET kept == SelectSeq(r, LAMBDA pos : RingMapGet(rm, pos) # nodeID)
    IN  [ring |-> SubSeq(kept, 1, Len(kept) - 1),
         ringMap |-> [p \in {q \in DOMAIN rm : rm[q] # nodeID} |-> rm[p]]]

\* the loop of RemoveNode over h.ring, deleting from h.ringMap as it goes
RECURSIVE RemoveVirtualNodes(_, _, _, _, _)
RemoveVirtualNodes(r, i, rm, nodeID, newRing) ==
    IF i > Len(r) THEN [ring |-> newRing, ringMap |-> rm]
    ELSE IF RingMapGet(rm, r[i]) # nodeID
         THEN RemoveVirtualNodes(r, i + 1, rm, nodeID, Append(newRing, r[i]))
         ELSE RemoveVirtualNodes(r, i + 1,
                                 [p \in DOMAIN rm \ {r[i]} |-> rm[p]],
                                 nodeID, newRing)

\* Stats(): the scalar fields of the returned map
Stats ==
    [total_nodes |-> Cardinality(DOMAIN nodes),
     total_keys |-> totalKeys,
     virtual_nodes |-> VirtualNodes,
     ring_size |-> Len(ring)]

\* ------------------------------------------------------------ bookkeeping
\* the last call made on the ring and what it returned; how tells which
\* branch of GetNodeWithBoundedLoad produced the result
Call(op, arg, err, ret) == [op |-> op, arg |-> arg, err |-> err, ret |-> ret, how |-> NoID]

BoundedCall(key, res) ==
    [op |-> "GetNodeWithBoundedLoad", arg |-> key, err |-> res.err, ret |-> res.ret,
     how |-> res.how]

\* NewConsistentHash: the empty ring (replicas and loadFactor are Replicas
\* and LoadFactorNum / LoadFactorDen)
NewConsistentHash == [ring |-> <<>>, ringMap |-> <<>>, nodes |-> <<>>]

\* a call of the simple ring: prev is the call before it when ReleaseKey
\* follows a GetNode of the same key, loads the loads before the call (before
\* that GetNode when prev is set)
ChCall(op, arg, err, ret, prev, loads) ==
    [op |-> op, arg |-> arg, err |-> err, ret |-> ret, prev |-> prev, loads |-> loads]

NoSnap == [key |-> NoID, Load |-> <<>>, totalKeys |-> 0, released |-> FALSE]

Init ==
    /\ nodes = <<>>
    /\ ring = <<>>
    /\ ringMap = <<>>
    /\ totalKeys = 0
    /\ keyAssignment = <<>>
    /\ last = Call("NewHashRing", NoID, ErrNil, NoID)
    /\ snap = NoSnap
    /\ fallbackTaken = FALSE
    /\ mu = 0
    /\ pc = [c \in 1..Callers |-> "idle"]
    /\ callArg = NoID
    /\ callErr = [c \in 1..Callers |-> NoID]
    /\ callRet = [c \in 1..Callers |-> NoID]
    /\ ch = NewConsistentHash
    /\ chLast = ChCall("NewConsistentHash", NoID, ErrNil, NoID, NoID, <<>>)

\* a failing call that counts one key less all the same
UnchangedButTotalKeys ==
    /\ totalKeys' = totalKeys - 1
    /\ UNCHANGED <<nodes, ring, ringMap, keyAssignment, fallbackTaken>>

\* the ring-wide state kept by a call that fails before it writes anything
Unchanged == UNCHANGED <<nodes, ring, ringMap, totalKeys, keyAssignment, fallbackTaken>>

\* ---------------------------------------------------------------- AddNode
\* lines 69-71: the node ID is present
AddNodeExists(id) ==
    /\ last' = Call("AddNode", id, ErrAlreadyExists, NoID)
    /\ snap' = NoSnap
    /\ Unchanged

\* lines 73-94: h.nodes[node.ID] = node and all that follows
AddNodeInsert(id) ==
         LET nodes1 == [x \in DOMAIN nodes \cup {id} |->
                          IF x = id THEN NewNode ELSE nodes[x]]
             topo == AddVirtualNodes(ring, ringMap, id)
             nodes2 == updateMaxLoads(nodes1, totalKeys)
         IN  /\ Len(topo.ring) <= VirtualNodes * Cardinality(DOMAIN nodes1) + MaxLeak
             /\ \E out \in rebalanceKeys(nodes2, topo.ring, topo.ringMap, keyAssignment) :
                   /\ nodes' = out.nodes
                   /\ ring' = topo.ring
                   /\ ringMap' = topo.ringMap
                   /\ keyAssignment' = out.keyAssignment
                   /\ last' = Call("AddNode", id, IF out.panic THEN Panic ELSE ErrNil, NoID)
                   /\ snap' = NoSnap
                   /\ fallbackTaken' = FALSE
                   /\ UNCHANGED totalKeys

\* a call of AddNode that no other goroutine overlaps
AddNode(id) ==
    /\ IF id \in DOMAIN nodes THEN AddNodeExists(id) ELSE AddNodeInsert(id)
    /\ UNCHANGED <<goroutines, simple>>

\* ------------------------------------------------------------- RemoveNode
RemoveNode(nodeID) ==
    /\ UNCHANGED <<goroutines, simple>>
    /\ IF nodeID \notin DOMAIN nodes
       THEN /\ last' = Call("RemoveNode", nodeID, ErrNotFound, NoID)
            /\ snap' = NoSnap
            /\ Unchanged
       ELSE LET topo == RemoveVirtualNodes(ring, 1, ringMap, nodeID, <<>>)
                total1 == totalKeys - nodes[nodeID].Load
                nodes1 == [id \in DOMAIN nodes \ {nodeID} |-> nodes[id]]
                nodes2 == updateMaxLoads(nodes1, total1)
            IN  /\ total1 >= -MaxDrift
                /\ \E out \in rebalanceKeys(nodes2, topo.ring, topo.ringMap, keyAssignment) :
                      /\ nodes' = out.nodes
                      /\ ring' = topo.ring
                      /\ ringMap' = topo.ringMap
                      /\ totalKeys' = total1
                      /\ keyAssignment' = out.keyAssignment
                      /\ last' = Call("RemoveNode", nodeID,
                                      IF out.panic THEN Panic ELSE ErrNil, NoID)
                      /\ snap' = NoSnap
                      /\ fallbackTaken' = FALSE

\* ---------------------------------------------------------------- GetNode
\* what GetNode(key) returns in the current state
GetNodeResult(key) ==
    IF DOMAIN nodes = {}
    THEN [err |-> ErrEmpty, ret |-> NilNode]
    ELSE LET node == getNodeForHash(nodes, ring, ringMap, hash(key))
         IN  IF node = Panic
             THEN [err |-> Panic, ret |-> NilNode]
             ELSE [err |-> ErrNil, ret |-> node]

GetNode(key) ==
    /\ last' = Call("GetNode", key, GetNodeResult(key).err, GetNodeResult(key).ret)
    /\ snap' = NoSnap
    /\ Unchanged
    /\ UNCHANGED <<goroutines, simple>>

\* ------------------------------------------------- GetNodeWithBoundedLoad
HasLiveAssignmentInverted(key) ==
    key \in DOMAIN keyAssignment /\ keyAssignment[key] \notin DOMAIN nodes

\* "Check if key already assigned": the key is recorded on a node that exists
HasLiveAssignment(key) ==
    key \in DOMAIN keyAssignment /\ keyAssignment[key] \in DOMAIN nodes

\* Lines 168-190, after the check for a recorded assignment: the walk and the
\* all-nodes-at-capacity branch, with the node returned and the fields
\* written.  walked is TRUE when the ring walk chose the node.
WalkResult(key) ==
    LET startIdx == search(ring, hash(key))
        ka1 == [k \in DOMAIN keyAssignment \ {key} |-> keyAssignment[k]]
        ringLen == Len(ring)
        idAt(i) == RingMapGet(ringMap, ring[((startIdx + i) % ringLen) + 1])
        \* iterations at which the loop ends: a nil node is dereferenced, or
        \* the node can accept the key
        stops == {i \in 0..(ringLen - 1) :
                     IF idAt(i) \in DOMAIN nodes
                     THEN CanAcceptKey(nodes[idAt(i)]) ELSE TRUE}
        first == CHOOSE i \in stops : \A j \in stops : i <= j
        assign(nodeID, walked) ==
            [nodes |-> [nodes EXCEPT ![nodeID] = IncrementLoad(@)],
             keyAssignment |-> ka1 @@ (key :> nodeID),
             totalKeys |-> totalKeys + 1,
             err |-> ErrNil, ret |-> nodeID,
             how |-> IF walked THEN "walk" ELSE "fallback"]
        panicked ==
            [nodes |-> nodes, keyAssignment |-> ka1, totalKeys |-> totalKeys,
             err |-> Panic, ret |-> NilNode, how |-> Panic]
    IN  IF ringLen = 0 THEN panicked
        ELSE IF stops # {}
             THEN IF idAt(first) \in DOMAIN nodes THEN assign(idAt(first), TRUE)
                  ELSE panicked
             ELSE assign(RingMapGet(ringMap, ring[startIdx + 1]), FALSE)

\* The result of the call on a non-empty node set: the recorded node when the
\* key has a live assignment, the result of the walk otherwise.
BoundedLoadResult(key) ==
    IF HasLiveAssignment(key)
    THEN [nodes |-> nodes, keyAssignment |-> keyAssignment, totalKeys |-> totalKeys,
          err |-> ErrNil, ret |-> keyAssignment[key], how |-> "sticky"]
    ELSE WalkResult(key)

GetNodeWithBoundedLoad(key) ==
    /\ UNCHANGED <<goroutines, simple>>
    /\ IF DOMAIN nodes = {}
       THEN /\ last' = Call("GetNodeWithBoundedLoad", key, ErrEmpty, NilNode)
            /\ snap' = NoSnap
            /\ Unchanged
       ELSE LET res == BoundedLoadResult(key)
            IN  /\ res.totalKeys - Cardinality(DOMAIN res.keyAssignment) <= MaxDrift
                /\ nodes' = res.nodes
                /\ keyAssignment' = res.keyAssignment
                /\ totalKeys' = res.totalKeys
                /\ fallbackTaken' = (fallbackTaken \/ res.how = "fallback")
                /\ last' = BoundedCall(key, res)
                /\ snap' = IF res.how \in {"walk", "fallback"} /\ key \notin DOMAIN keyAssignment
                           THEN [key |-> key,
                                 Load |-> [id \in DOMAIN nodes |-> nodes[id].Load],
                                 totalKeys |-> totalKeys,
                                 released |-> FALSE]
                           ELSE NoSnap
                /\ UNCHANGED <<ring, ringMap>>

\* -------------------------------------------------------------- RemoveKey
RemoveKey(key) ==
    /\ UNCHANGED <<goroutines, simple>>
    /\ IF key \notin DOMAIN keyAssignment
       THEN /\ last' = Call("RemoveKey", key, ErrNotFound, NoID)
            /\ snap' = NoSnap
            /\ Unchanged
       ELSE LET nodeID == keyAssignment[key]
            IN  /\ totalKeys - 1 >= -MaxDrift
                /\ nodes' = IF nodeID \in DOMAIN nodes
                            THEN [nodes EXCEPT ![nodeID] = DecrementLoad(@)]
                            ELSE nodes
                /\ keyAssignment' = [k \in DOMAIN keyAssignment \ {key} |-> keyAssignment[k]]
                /\ totalKeys' = totalKeys - 1
                /\ last' = Call("RemoveKey", key, ErrNil, NoID)
                /\ snap' = IF snap.key = key /\ ~snap.released
                           THEN [snap EXCEPT !.released = TRUE]
                           ELSE NoSnap
                /\ UNCHANGED <<ring, ringMap, fallbackTaken>>

\* ---------------------------------------------------------- specifications
\* The operations that write the ring, in any order.
Next ==
    \/ \E id \in NodeIDs : AddNode(id)
    \/ \E id \in NodeIDs : RemoveNode(id)
    \/ \E key \in Keys : GetNodeWithBoundedLoad(key)
    \/ \E key \in Keys : RemoveKey(key)

Spec == Init /\ [][Next]_vars

\* Lookups on a fixed membership: nodes are added and removed while no key
\* is recorded, and GetNode is interleaved with assignments and releases.
NextLookup ==
    \/ \E id \in NodeIDs : keyAssignment = <<>> /\ AddNode(id)
    \/ \E id \in NodeIDs : keyAssignment = <<>> /\ RemoveNode(id)
    \/ \E key \in Keys : GetNode(key)
    \/ \E key \in Keys : GetNodeWithBoundedLoad(key)
    \/ \E key \in Keys : RemoveKey(key)

SpecLookup == Init /\ [][NextLookup]_vars

\* A fresh ring to which nodes are added and on which keys are then assigned,
\* with no membership change once the first key is recorded.
NextAssign ==
    \/ \E id \in AssignNodeIDs : keyAssignment = <<>> /\ AddNode(id)
    \/ \E key \in AssignKeySet : GetNodeWithBoundedLoad(key)

SpecAssign == Init /\ [][NextAssign]_vars

\* Membership changes over three nodes, two of which share a ring position,
\* with one key being assigned.
NextTopo ==
    \/ \E id \in TopoNodeIDs : AddNode(id)
    \/ \E id \in TopoNodeIDs : RemoveNode(id)
    \/ \E key \in TopoKeySet : GetNodeWithBoundedLoad(key)

SpecTopo == Init /\ [][NextTopo]_vars

\* ------------------------------------------------- concurrent AddNode calls
MutexIgnored == TRUE

\* h.mu.Lock() returns only when no goroutine holds the mutex
MutexFree == mu = 0

\* the goroutines start calling AddNode with the same node ID, not yet present
StartAddNode(id) ==
    /\ callArg = NoID
    /\ UNCHANGED simple
    /\ id \notin DOMAIN nodes
    /\ callArg' = id
    /\ pc' = [c \in 1..Callers |-> "lock"]
    /\ UNCHANGED <<nodes, ring, ringMap, totalKeys, keyAssignment, last, snap,
                   fallbackTaken, mu, callErr, callRet>>

\* line 66: h.mu.Lock()
Lock(c) ==
    /\ pc[c] = "lock"
    /\ UNCHANGED simple
    /\ MutexFree
    /\ mu' = c
    /\ pc' = [pc EXCEPT ![c] = "check"]
    /\ UNCHANGED <<nodes, ring, ringMap, totalKeys, keyAssignment, last, snap,
                   fallbackTaken, callArg, callErr, callRet>>

\* lines 69-71: the existence check and its early return
CheckExists(c) ==
    /\ pc[c] = "check"
    /\ UNCHANGED simple
    /\ IF callArg \in DOMAIN nodes
       THEN /\ AddNodeExists(callArg)
            /\ callErr' = [callErr EXCEPT ![c] = ErrAlreadyExists]
            /\ pc' = [pc EXCEPT ![c] = "unlock"]
       ELSE /\ pc' = [pc EXCEPT ![c] = "insert"]
            /\ UNCHANGED <<nodes, ring, ringMap, totalKeys, keyAssignment, last,
                           snap, fallbackTaken, callErr>>
    /\ UNCHANGED <<mu, callArg, callRet>>

\* lines 73-94: the insertion, up to the return
Insert(c) ==
    /\ pc[c] = "insert"
    /\ UNCHANGED simple
    /\ AddNodeInsert(callArg)
    /\ callErr' = [callErr EXCEPT ![c] = last'.err]
    /\ pc' = [pc EXCEPT ![c] = "unlock"]
    /\ UNCHANGED <<mu, callArg, callRet>>

\* line 67: the deferred h.mu.Unlock()
Unlock(c) ==
    /\ pc[c] = "unlock"
    /\ UNCHANGED simple
    /\ mu' = 0
    /\ pc' = [pc EXCEPT ![c] = "done"]
    /\ UNCHANGED <<nodes, ring, ringMap, totalKeys, keyAssignment, last, snap,
                   fallbackTaken, callArg, callErr, callRet>>

\* A ring is built by AddNode and key assignment; then the goroutines race.
NextConc ==
    \/ \E id \in NodeIDs : callArg = NoID /\ AddNode(id)
    \/ \E key \in Keys : callArg = NoID /\ GetNodeWithBoundedLoad(key)
    \/ \E id \in NodeIDs : StartAddNode(id)
    \/ \E c \in 1..Callers : Lock(c)
    \/ \E c \in 1..Callers : CheckExists(c)
    \/ \E c \in 1..Callers : Insert(c)
    \/ \E c \in 1..Callers : Unlock(c)

SpecConc == Init /\ [][NextConc]_vars

\* ------------------------------- concurrent GetNodeWithBoundedLoad calls
\* the goroutines start calling GetNodeWithBoundedLoad with the same key, not
\* yet assigned; snap keeps the loads and totalKeys of that moment
StartAssign(key) ==
    /\ callArg = NoID
    /\ UNCHANGED simple
    /\ key \notin DOMAIN keyAssignment
    /\ callArg' = key
    /\ pc' = [c \in 1..Callers |-> "acquire"]
    /\ snap' = [key |-> key,
                Load |-> [id \in DOMAIN nodes |-> nodes[id].Load],
                totalKeys |-> totalKeys,
                released |-> FALSE]
    /\ UNCHANGED <<nodes, ring, ringMap, totalKeys, keyAssignment, last,
                   fallbackTaken, mu, callErr, callRet>>

\* line 147: h.mu.Lock()
AssignLock(c) ==
    /\ pc[c] = "acquire"
    /\ UNCHANGED simple
    /\ MutexFree
    /\ mu' = c
    /\ pc' = [pc EXCEPT ![c] = "sticky"]
    /\ UNCHANGED <<nodes, ring, ringMap, totalKeys, keyAssignment, last, snap,
                   fallbackTaken, callArg, callErr, callRet>>

\* lines 150-166: the empty-ring return and the check for a recorded
\* assignment, which returns the recorded node or drops a stale record
AssignCheck(c) ==
    /\ pc[c] = "sticky"
    /\ UNCHANGED simple
    /\ IF DOMAIN nodes = {}
       THEN /\ last' = Call("GetNodeWithBoundedLoad", callArg, ErrEmpty, NilNode)
            /\ callErr' = [callErr EXCEPT ![c] = ErrEmpty]
            /\ callRet' = [callRet EXCEPT ![c] = NilNode]
            /\ pc' = [pc EXCEPT ![c] = "unlock"]
            /\ UNCHANGED keyAssignment
       ELSE IF HasLiveAssignment(callArg)
       THEN /\ last' = BoundedCall(callArg, BoundedLoadResult(callArg))
            /\ callErr' = [callErr EXCEPT ![c] = ErrNil]
            /\ callRet' = [callRet EXCEPT ![c] = keyAssignment[callArg]]
            /\ pc' = [pc EXCEPT ![c] = "unlock"]
            /\ UNCHANGED keyAssignment
       ELSE /\ keyAssignment' = [k \in DOMAIN keyAssignment \ {callArg} |->
                                   keyAssignment[k]]
            /\ pc' = [pc EXCEPT ![c] = "walk"]
            /\ UNCHANGED <<last, callErr, callRet>>
    /\ UNCHANGED <<nodes, ring, ringMap, totalKeys, snap, fallbackTaken, mu, callArg>>

\* lines 168-190: the walk, the fallback branch and the return
AssignWalk(c) ==
    /\ pc[c] = "walk"
    /\ UNCHANGED simple
    /\ LET res == WalkResult(callArg)
       IN  /\ nodes' = res.nodes
           /\ keyAssignment' = res.keyAssignment
           /\ totalKeys' = res.totalKeys
           /\ fallbackTaken' = (fallbackTaken \/ res.how = "fallback")
           /\ last' = BoundedCall(callArg, res)
           /\ callErr' = [callErr EXCEPT ![c] = res.err]
           /\ callRet' = [callRet EXCEPT ![c] = res.ret]
    /\ pc' = [pc EXCEPT ![c] = "unlock"]
    /\ UNCHANGED <<ring, ringMap, snap, mu, callArg>>

\* some goroutine is still inside its call
Racing == callArg # NoID /\ \E c \in 1..Callers : pc[c] # "done"

\* A ring is built by AddNode and key assignment; then the goroutines race
\* while RemoveKey and GetNode calls for other keys take the lock in between.
NextConcAssign ==
    \/ \E id \in NodeIDs : callArg = NoID /\ AddNode(id)
    \/ \E key \in Keys : callArg = NoID /\ GetNodeWithBoundedLoad(key)
    \/ \E key \in Keys : StartAssign(key)
    \/ \E c \in 1..Callers : AssignLock(c)
    \/ \E c \in 1..Callers : AssignCheck(c)
    \/ \E c \in 1..Callers : AssignWalk(c)
    \/ \E c \in 1..Callers : Unlock(c)
    \/ \E key \in Keys \ {callArg} : Racing /\ MutexFree /\ RemoveKey(key)
    \/ \E key \in Keys \ {callArg} : Racing /\ MutexFree /\ GetNode(key)

SpecConcAssign == Init /\ [][NextConcAssign]_vars

\* ------------------------------------------ the simple ring, ConsistentHash
\* sort.Search(len(ch.ring), ...): len(ch.ring) when no position is >= hashVal
chSearch(r, hashVal) == SortSearch(r, hashVal, 0, Len(r))

\* fmt.Sprintf("%s#%d", nodeName, i)
ReplicaKey(nodeName, i) == nodeName \o "#" \o ToString(i)

\* the load of every node of the simple ring
ChLoads == [n \in DOMAIN ch.nodes |-> ch.nodes[n].load]

RECURSIVE SumOfLoads(_)
SumOfLoads(S) ==
    IF S = {} THEN 0
    ELSE LET n == CHOOSE x \in S : TRUE
         IN  ch.nodes[n].load + SumOfLoads(S \ {n})

\* int(avgLoad * ch.loadFactor) with avgLoad = float64(totalLoad+1) / totalNodes
ChMaxLoad(totalLoad, totalNodes) ==
    TruncDiv((totalLoad + 1) * LoadFactorNum, totalNodes * LoadFactorDen)

ChAddNode(nodeName) ==
    /\ UNCHANGED <<hashRing, goroutines>>
    /\ chLast' = ChCall("AddNode", nodeName, ErrNil, NoID, NoID, ChLoads)
    /\ IF nodeName \in DOMAIN ch.nodes
       THEN UNCHANGED ch
       ELSE LET added == [i \in 1..Replicas |-> chHash(ReplicaKey(nodeName, i - 1))]
            IN  ch' = [ring |-> SortRing(ch.ring \o added),
                       ringMap |-> [p \in DOMAIN ch.ringMap \cup Range(added) |->
                                      IF p \in Range(added) THEN nodeName
                                      ELSE ch.ringMap[p]],
                       nodes |-> [n \in DOMAIN ch.nodes \cup {nodeName} |->
                                    IF n = nodeName
                                    THEN [name |-> nodeName, load |-> 0]
                                    ELSE ch.nodes[n]]]

\* the loop of RemoveNode from replica i on: the entry of the position is
\* deleted from ringMap and the element at its search index is cut out of
\* the ring; slicing past the end of the ring panics
RECURSIVE RemoveReplicas(_, _, _, _)
RemoveReplicas(r, rm, nodeName, i) ==
    IF i >= Replicas THEN [ring |-> r, ringMap |-> rm, panic |-> FALSE]
    ELSE LET hashVal == chHash(ReplicaKey(nodeName, i))
             rm1 == [p \in DOMAIN rm \ {hashVal} |-> rm[p]]
             idx == chSearch(r, hashVal)
         IN  IF idx >= Len(r) THEN [ring |-> r, ringMap |-> rm1, panic |-> TRUE]
             ELSE RemoveReplicas(SubSeq(r, 1, idx) \o SubSeq(r, idx + 2, Len(r)),
                                 rm1, nodeName, i + 1)

ChRemoveNode(nodeName) ==
    /\ UNCHANGED <<hashRing, goroutines>>
    /\ IF nodeName \notin DOMAIN ch.nodes
       THEN /\ UNCHANGED ch
            /\ chLast' = ChCall("RemoveNode", nodeName, ErrNil, NoID, NoID, ChLoads)
       ELSE LET topo == RemoveReplicas(ch.ring, ch.ringMap, nodeName, 0)
            IN  /\ ch' = [ring |-> topo.ring,
                          ringMap |-> topo.ringMap,
                          nodes |-> IF topo.panic THEN ch.nodes
                                    ELSE [n \in DOMAIN ch.nodes \ {nodeName} |->
                                            ch.nodes[n]]]
                /\ chLast' = ChCall("RemoveNode", nodeName,
                                    IF topo.panic THEN Panic ELSE ErrNil,
                                    NoID, NoID, ChLoads)

\* GetNode on a non-empty ring: the node chosen and whether the walk or the
\* all-nodes-at-capacity branch chose it; NoID when the call dereferences a
\* position without a node
ChGetNodeResult(key) ==
    LET totalNodes == Cardinality(DOMAIN ch.nodes)
        maxLoad == ChMaxLoad(SumOfLoads(DOMAIN ch.nodes), totalNodes)
        idx == chSearch(ch.ring, chHash(key))
        n == Len(ch.ring)
        nameAt(i) == RingMapGet(ch.ringMap, ch.ring[((idx + i) % n) + 1])
        \* iterations at which the loop ends: a nil node is dereferenced, or
        \* the node is under the load limit
        stops == {i \in 0..(n - 1) :
                     IF nameAt(i) \in DOMAIN ch.nodes
                     THEN ch.nodes[nameAt(i)].load < maxLoad \/ maxLoad = 0
                     ELSE TRUE}
        first == CHOOSE i \in stops : \A j \in stops : i <= j
        chosen == IF stops # {} THEN nameAt(first)
                  ELSE RingMapGet(ch.ringMap, ch.ring[(idx % n) + 1])
    IN  [name |-> IF chosen \in DOMAIN ch.nodes THEN chosen ELSE NoID,
         walked |-> stops # {},
         maxLoad |-> maxLoad]

ChGetNode(key) ==
    /\ UNCHANGED <<hashRing, goroutines>>
    /\ IF Len(ch.ring) = 0
       THEN /\ UNCHANGED ch
            /\ chLast' = ChCall("GetNode", key, ErrEmpty, NoID, NoID, ChLoads)
       ELSE LET res == ChGetNodeResult(key)
            IN  IF res.name = NoID
                THEN /\ UNCHANGED ch
                     /\ chLast' = ChCall("GetNode", key, Panic, NoID, NoID, ChLoads)
                ELSE /\ SumOfLoads(DOMAIN ch.nodes) < MaxTotalLoad
                     /\ ch' = [ch EXCEPT !.nodes[res.name].load = @ + 1]
                     /\ chLast' = ChCall("GetNode", key, ErrNil, res.name, NoID, ChLoads)

ChReleaseKey(key) ==
    /\ UNCHANGED <<hashRing, goroutines>>
    /\ LET follows == /\ chLast.op = "GetNode" /\ chLast.arg = key
                      /\ chLast.err = ErrNil
           prev == IF follows THEN "GetNode" ELSE NoID
           loads == IF follows THEN chLast.loads ELSE ChLoads
       IN  IF Len(ch.ring) = 0
           THEN /\ UNCHANGED ch
                /\ chLast' = ChCall("ReleaseKey", key, ErrEmpty, NoID, prev, loads)
           ELSE LET found == chSearch(ch.ring, chHash(key))
                    idx == IF found >= Len(ch.ring) THEN 0 ELSE found
                    nodeName == RingMapGet(ch.ringMap, ch.ring[idx + 1])
                IN  IF nodeName \notin DOMAIN ch.nodes
                    THEN /\ UNCHANGED ch
                         /\ chLast' = ChCall("ReleaseKey", key, Panic, NoID, prev, loads)
                    ELSE /\ ch' = IF ch.nodes[nodeName].load > 0
                                  THEN [ch EXCEPT !.nodes[nodeName].load = @ - 1]
                                  ELSE ch
                         /\ chLast' = ChCall("ReleaseKey", key, ErrNil, NoID, prev, loads)

NextSimple ==
    \/ \E nodeName \in SimpleNodeNames : ChAddNode(nodeName)
    \/ \E nodeName \in SimpleNodeNames : ChRemoveNode(nodeName)
    \/ \E key \in SimpleKeySet : ChGetNode(key)
    \/ \E key \in SimpleKeySet : ChReleaseKey(key)

SpecSimple == Init /\ [][NextSimple]_vars

TypeOK ==
    /\ DOMAIN nodes \subseteq NodeIDs
    /\ \A i \in 1..(Len(ring) - 1) : ring[i] <= ring[i + 1]
    /\ totalKeys >= -MaxDrift
    /\ totalKeys - Cardinality(DOMAIN keyAssignment) <= MaxDrift

\* ------------------------------------------------------ derived quantities
RECURSIVE SumLoads(_, _)
SumLoads(ns, S) ==
    IF S = {} THEN 0
    ELSE LET id == CHOOSE x \in S : TRUE
         IN  ns[id].Load + SumLoads(ns, S \ {id})

TotalLoad == SumLoads(nodes, DOMAIN nodes)

AssignedCount == Cardinality(DOMAIN keyAssignment)

KeysOn(id) == {k \in DOMAIN keyAssignment : keyAssignment[k] = id}

\* the mathematical ceiling of a / b, b > 0
CeilDiv(a, b) == -((-a) \div b)

\* max(1, ceil((total / n) * loadFactor))
CeilMaxLoad(total, n) ==
    LET c == CeilDiv(total * LoadFactorNum, n * LoadFactorDen)
    IN  IF c < 1 THEN 1 ELSE c

\* ------------------------------------------------------------------ claims

\* C1: in every reachable state the sum of Load over the live nodes equals
\* the number of keys in the key-assignment table.
Conservation == TotalLoad = AssignedCount

\* C2: in every reachable state each live node's Load equals the number of
\* keys recorded on that node.
PerNodeAccounting ==
    \A id \in DOMAIN nodes : nodes[id].Load = Cardinality(KeysOn(id))

\* C3: the total_keys figure of Stats equals the number of keys in the
\* key-assignment table (stated where a RemoveNode has returned nil and
\* left a node on the ring).
StatsTotalKeys ==
    (DOMAIN nodes # {} /\ last.op = "RemoveNode" /\ last.err = ErrNil)
        => Stats.total_keys = AssignedCount

\* C4: after K distinct keys are assigned on N >= 1 nodes with no membership
\* change in between, the total load is K and every node's Load is at most
\* ceil((K / N) * loadFactor).
AssignBoundedByCeiling ==
    DOMAIN nodes # {} =>
        /\ TotalLoad = AssignedCount
        /\ \A id \in DOMAIN nodes :
              nodes[id].Load <= CeilDiv(AssignedCount * LoadFactorNum,
                                        Cardinality(DOMAIN nodes) * LoadFactorDen)

LoadWithinFiveOfMaxLoad ==
    \A id \in DOMAIN nodes : nodes[id].Load <= nodes[id].MaxLoad + 5

\* C7: after AddNode, RemoveNode, a GetNodeWithBoundedLoad that records a
\* key, and RemoveKey, every live node's MaxLoad is the value updateMaxLoads
\* computes for the current number of assigned keys and the current node count.
MaxLoadUpToDate ==
    (/\ last.err = ErrNil
     /\ \/ last.op \in {"AddNode", "RemoveNode", "RemoveKey"}
        \/ last.op = "GetNodeWithBoundedLoad" /\ last.how \in {"walk", "fallback"})
    => \A id \in DOMAIN nodes :
          nodes[id].MaxLoad = MaxLoadFor(AssignedCount, Cardinality(DOMAIN nodes))

\* C8: when updateMaxLoads has run with at least one live node and
\* totalKeys >= 0, every MaxLoad is max(1, ceil((totalKeys / nodeCount) *
\* loadFactor)), the mathematical ceiling.
UpdateMaxLoadsIsCeiling ==
    (/\ last.op \in {"AddNode", "RemoveNode"}
     /\ last.err \in {ErrNil, Panic}
     /\ totalKeys >= 0)
    => \A id \in DOMAIN nodes :
          nodes[id].MaxLoad = CeilMaxLoad(totalKeys, Cardinality(DOMAIN nodes))

\* C9: GetNodeWithBoundedLoad of a key recorded on a live node returns that
\* node and leaves every node's Load, totalKeys and the assignment table
\* unchanged.
StickyAssignment ==
    [][(/\ last'.op = "GetNodeWithBoundedLoad"
        /\ last'.arg \in DOMAIN keyAssignment
        /\ keyAssignment[last'.arg] \in DOMAIN nodes)
       => /\ last'.err = ErrNil
          /\ last'.ret = keyAssignment[last'.arg]
          /\ nodes' = nodes
          /\ totalKeys' = totalKeys
          /\ keyAssignment' = keyAssignment]_vars

\* a repeated lookup of a recorded key returned its node while another key
\* is recorded as well
StickyWitness ==
    /\ last.op = "GetNodeWithBoundedLoad" /\ last.how = "sticky"
    /\ last.ret = keyAssignment[last.arg]
    /\ AssignedCount >= 2

\* C10: GetNodeWithBoundedLoad(k) for an unassigned k followed by RemoveKey(k)
\* restores every node's Load and totalKeys to their values before the
\* assignment, and a second RemoveKey(k) fails with the not-found error.
ReleaseRoundTrip ==
    [][/\ (/\ snap.key # NoID /\ ~snap.released
           /\ last'.op = "RemoveKey" /\ last'.arg = snap.key)
          => /\ last'.err = ErrNil
             /\ totalKeys' = snap.totalKeys
             /\ DOMAIN nodes' = DOMAIN snap.Load
             /\ \A id \in DOMAIN nodes' : nodes'[id].Load = snap.Load[id]
       /\ (/\ snap.released
           /\ last'.op = "RemoveKey" /\ last'.arg = snap.key)
          => /\ last'.err = ErrNotFound
             /\ nodes' = nodes
             /\ totalKeys' = totalKeys
             /\ keyAssignment' = keyAssignment]_vars

\* the key assigned by the previous call has just been released again, from
\* a node that holds other keys
ReleaseWitness ==
    /\ snap.released
    /\ last = Call("RemoveKey", snap.key, ErrNil, NoID)
    /\ \E id \in DOMAIN nodes : nodes[id].Load > 0

\* C11: with the membership fixed, GetNode(k) returns the same result on
\* every call: a GetNode call changes nothing of the ring, and no GetNode,
\* GetNodeWithBoundedLoad or RemoveKey call changes what GetNode returns for
\* any key.
GetNodeDeterministic ==
    [][last'.op \in {"GetNode", "GetNodeWithBoundedLoad", "RemoveKey"}
       => /\ \A k \in LookupKeys : GetNodeResult(k)' = GetNodeResult(k)
          /\ last'.op = "GetNode"
                => /\ UNCHANGED <<nodes, ring, ringMap, totalKeys, keyAssignment>>
                   /\ last'.err = GetNodeResult(last'.arg).err
                   /\ last'.ret = GetNodeResult(last'.arg).ret]_vars

\* GetNode returned a node that is at its MaxLoad because of recorded keys
GetNodeWitness ==
    /\ last.op = "GetNode" /\ last.err = ErrNil
    /\ last.ret \in DOMAIN nodes
    /\ ~CanAcceptKey(nodes[last.ret])
    /\ AssignedCount >= 1

\* C12: a key for which GetNode returned a node A other than B before
\* RemoveNode(B) is still mapped to A by GetNode after it.
RemovalKeepsOtherKeys ==
    [][(last'.op = "RemoveNode" /\ last'.arg \in DOMAIN nodes)
       => \A k \in LookupKeys :
             (/\ GetNodeResult(k).err = ErrNil
              /\ GetNodeResult(k).ret \in DOMAIN nodes \ {last'.arg})
             => GetNodeResult(k)' = GetNodeResult(k)]_vars

\* a node was removed without error and GetNode maps keys to each of the
\* two nodes that are left
RemovalWitness ==
    /\ last.op = "RemoveNode" /\ last.err = ErrNil
    /\ Cardinality(DOMAIN nodes) = 2
    /\ \A id \in DOMAIN nodes : \E k \in LookupKeys : GetNodeResult(k).ret = id

\* C13: after RemoveNode(B) has returned nil with other nodes remaining,
\* GetNode returns B for no key and every entry of the key-assignment table
\* references a live node.
NoKeyOnRemovedNode ==
    (last.op = "RemoveNode" /\ last.err = ErrNil /\ DOMAIN nodes # {})
    => /\ \A k \in LookupKeys : GetNodeResult(k).ret # last.arg
       /\ \A k \in DOMAIN keyAssignment : keyAssignment[k] \in DOMAIN nodes

\* the removed node held a key, which is now recorded on a node that is left
RemovedNodeHeldKeys ==
    /\ last.op = "RemoveNode" /\ last.err = ErrNil /\ DOMAIN nodes # {}
    /\ keyAssignment # <<>>
    /\ totalKeys < AssignedCount
    /\ last.arg \notin DOMAIN nodes

\* C14: GetNode and GetNodeWithBoundedLoad return the empty-ring error
\* exactly when no node is present, and otherwise return a live node.
LookupFailsOnlyWhenEmpty ==
    last.op \in {"GetNode", "GetNodeWithBoundedLoad"}
    => IF DOMAIN nodes = {}
       THEN last.err = ErrEmpty
       ELSE last.err = ErrNil /\ last.ret \in DOMAIN nodes

\* C15: AddNode returns the already-exists error when the ID is present and
\* changes nothing; otherwise it returns nil, the node is present and the
\* ring has grown by exactly virtualNodes positions.
AddNodeContract ==
    [][last'.op = "AddNode"
       => IF last'.arg \in DOMAIN nodes
          THEN /\ last'.err = ErrAlreadyExists
               /\ UNCHANGED <<nodes, ring, ringMap, totalKeys, keyAssignment>>
          ELSE /\ last'.err = ErrNil
               /\ last'.arg \in DOMAIN nodes'
               /\ Len(ring') = Len(ring) + VirtualNodes]_vars

\* C16: RemoveNode(id) returns the not-found error when id is absent; when
\* id is present, afterwards no entry of the position map belongs to id,
\* every position left in the list has an entry in the map, and the list of
\* a ring without nodes is empty.
RemoveNodeClearsPositions ==
    [][last'.op = "RemoveNode"
       => IF last'.arg \notin DOMAIN nodes
          THEN last'.err = ErrNotFound
          ELSE /\ last'.arg \notin DOMAIN nodes'
               /\ \A pos \in DOMAIN ringMap' : ringMap'[pos] # last'.arg
               /\ \A pos \in Range(ring') : pos \in DOMAIN ringMap'
               /\ DOMAIN nodes' = {} => Len(ring') = 0]_vars

\* C17: h.ring is sorted ascending and holds no position twice.
RingSortedNoDuplicates ==
    \A i \in 1..(Len(ring) - 1) : ring[i] < ring[i + 1]

\* C18: with a node present, GetNodeWithBoundedLoad(key) returns a node and
\* records the key on it, never an error; when it takes the fallback the
\* node is the one GetNode gives for the key and its Load exceeds its MaxLoad.
BoundedLoadAlwaysAssigns ==
    (last.op = "GetNodeWithBoundedLoad" /\ DOMAIN nodes # {})
    => /\ last.err = ErrNil
       /\ last.ret \in DOMAIN nodes
       /\ last.arg \in DOMAIN keyAssignment
       /\ keyAssignment[last.arg] = last.ret
       /\ last.how = "fallback"
             => /\ last.ret = GetNodeResult(last.arg).ret
                /\ nodes[last.ret].Load > nodes[last.ret].MaxLoad

\* the goroutines that got past the existence check
Inserters == {c \in 1..Callers : pc[c] = "insert" \/ callErr[c] = ErrNil}

\* C19: of the concurrent AddNode calls with the same ID at most one gets
\* past the existence check; when all have returned exactly one returned nil
\* and the others the already-exists error, and the ring holds exactly
\* virtualNodes positions for the ID.
ConcurrentAddNode ==
    /\ Cardinality(Inserters) <= 1
    /\ (\A c \in 1..Callers : pc[c] = "done")
       => /\ Cardinality(Inserters) = 1
          /\ \A c \in 1..Callers : callErr[c] \in {ErrNil, ErrAlreadyExists}
          /\ callArg \in DOMAIN nodes
          /\ Cardinality({pos \in DOMAIN ringMap : ringMap[pos] = callArg}) = VirtualNodes
          /\ Len(ring) = VirtualNodes * Cardinality(DOMAIN nodes)

\* all calls have returned, on a ring that held another node and a key
ConcurrentAddNodeWitness ==
    /\ \A c \in 1..Callers : pc[c] = "done"
    /\ \E c \in 1..Callers : callErr[c] = ErrAlreadyExists
    /\ Cardinality(DOMAIN nodes) >= 2
    /\ keyAssignment # <<>>

\* C20: every call returns a value or one of the documented errors.
NoOperationPanics ==
    last.err \in {ErrNil, ErrAlreadyExists, ErrNotFound, ErrEmpty}

\* the smallest position of r at or after hashVal, the smallest position of
\* all when there is none
ClockwisePosition(r, hashVal) ==
    LET atOrAfter == {pos \in Range(r) : pos >= hashVal}
        from == IF atOrAfter # {} THEN atOrAfter ELSE Range(r)
    IN  CHOOSE pos \in from : \A q \in from : pos <= q

\* C21: on a ring with a node, GetNode(k) returns the node owning the
\* smallest ring position >= hash(k), or the node owning the smallest
\* position of the ring when hash(k) is greater than every position.
ClockwiseLookup ==
    (last.op = "GetNode" /\ DOMAIN nodes # {})
    => /\ last.err = ErrNil
       /\ last.ret \in DOMAIN nodes
       /\ last.ret = RingMapGet(ringMap, ClockwisePosition(ring, hash(last.arg)))

\* the node a walk once around the ring from the lookup index of hash(key)
\* reaches first among those that can accept a key, NilNode when none can
FirstAccepting(key) ==
    LET n == Len(ring)
        start == search(ring, hash(key))
        idAt(i) == RingMapGet(ringMap, ring[((start + i) % n) + 1])
        accepting == {i \in 0..(n - 1) :
                         idAt(i) \in DOMAIN nodes /\ CanAcceptKey(nodes[idAt(i)])}
    IN  IF accepting = {} THEN NilNode
        ELSE idAt(CHOOSE i \in accepting : \A j \in accepting : i <= j)

\* C22: GetNodeWithBoundedLoad of a key with no recorded assignment assigns
\* it to the first node on the walk from the lookup index that can accept
\* it; that node's Load and totalKeys grow by exactly 1 and no other Load
\* changes.
WalkAssignsFirstAccepting ==
    [][(/\ last'.op = "GetNodeWithBoundedLoad"
        /\ last'.arg \notin DOMAIN keyAssignment
        /\ DOMAIN nodes # {}
        /\ FirstAccepting(last'.arg) # NilNode)
       => /\ last'.err = ErrNil
          /\ last'.ret = FirstAccepting(last'.arg)
          /\ nodes' = [nodes EXCEPT ![FirstAccepting(last'.arg)] = IncrementLoad(@)]
          /\ totalKeys' = totalKeys + 1]_vars

\* C23: after AddNode or RemoveNode has rebalanced the keys, a node holds
\* more keys than its MaxLoad only if every node is at its MaxLoad.
RebalanceRespectsMaxLoad ==
    (last.op \in {"AddNode", "RemoveNode"} /\ last.err = ErrNil)
    => ((\E id \in DOMAIN nodes : nodes[id].Load > nodes[id].MaxLoad)
        => \A id \in DOMAIN nodes : nodes[id].Load >= nodes[id].MaxLoad)

\* C24: with more than one node GetNodeWithBoundedLoad never takes the
\* all-nodes-at-capacity fallback.
FallbackNeverTaken ==
    (last.op = "GetNodeWithBoundedLoad" /\ Cardinality(DOMAIN nodes) > 1)
    => last.how # "fallback"

\* C25: a call that returns an error leaves the position list, the position
\* map, the nodes with their Load and MaxLoad, totalKeys and the assignment
\* table unchanged.
ErrorLeavesRingUnchanged ==
    [][last'.err \in {ErrAlreadyExists, ErrNotFound, ErrEmpty}
       => UNCHANGED <<ring, ringMap, nodes, totalKeys, keyAssignment>>]_vars

\* a RemoveKey of an unassigned key has failed on a ring that holds a node
\* and another key
ErrorWitness ==
    /\ last.op = "RemoveKey" /\ last.err = ErrNotFound
    /\ DOMAIN nodes # {}
    /\ keyAssignment # <<>>

\* C26: every live node has Load >= 0 and MaxLoad >= 1, and totalKeys >= 0.
CountersInRange ==
    /\ \A id \in DOMAIN nodes : nodes[id].Load >= 0 /\ nodes[id].MaxLoad >= 1
    /\ totalKeys >= 0

\* C27: every position in h.ring has an entry in h.ringMap whose node ID is
\* a key of h.nodes, and GetNode on a ring with a node never returns nil.
RingPositionsOwned ==
    /\ \A pos \in Range(ring) : RingMapGet(ringMap, pos) \in DOMAIN nodes
    /\ DOMAIN nodes # {}
          => \A k \in LookupKeys : GetNodeResult(k).ret \in DOMAIN nodes

\* C28: after AddNode(D) has returned nil on a ring with a node, GetNode(k)
\* returns for every key either what it returned before or D.
AdditionKeepsOtherKeys ==
    [][(/\ last'.op = "AddNode" /\ last'.err = ErrNil
        /\ last'.arg \notin DOMAIN nodes
        /\ DOMAIN nodes # {})
       => \A k \in LookupKeys :
             GetNodeResult(k)'.ret \in {GetNodeResult(k).ret, last'.arg}]_vars

\* a third node was added and GetNode maps keys to it and to an older node
AdditionWitness ==
    /\ last.op = "AddNode" /\ last.err = ErrNil
    /\ Cardinality(DOMAIN nodes) = 3
    /\ \E k \in LookupKeys : GetNodeResult(k).ret = last.arg
    /\ \E k \in LookupKeys : GetNodeResult(k).ret \in DOMAIN nodes \ {last.arg}

\* C29: when the goroutines that called GetNodeWithBoundedLoad with the same
\* unassigned key have all returned, they have received the same node, the
\* key is recorded on it and counted once (every Load is the number of keys
\* recorded on the node, totalKeys the number of recorded keys), and when no
\* other call ran in between exactly one Load and totalKeys grew by 1.
ConcurrentAssignOnce ==
    (callArg # NoID /\ \A c \in 1..Callers : pc[c] = "done")
    => /\ \A c, d \in 1..Callers : callRet[c] = callRet[d] /\ callErr[c] = callErr[d]
       /\ DOMAIN nodes # {}
             => /\ \A c \in 1..Callers :
                      /\ callErr[c] = ErrNil
                      /\ callRet[c] \in DOMAIN nodes
                      /\ callArg \in DOMAIN keyAssignment
                      /\ keyAssignment[callArg] = callRet[c]
                /\ \A id \in DOMAIN nodes : nodes[id].Load = Cardinality(KeysOn(id))
                /\ totalKeys = Cardinality(DOMAIN keyAssignment)
                /\ snap.key = callArg
                      => /\ totalKeys = snap.totalKeys + 1
                         /\ \A id \in DOMAIN nodes :
                               nodes[id].Load = snap.Load[id]
                                   + (IF id = keyAssignment[callArg] THEN 1 ELSE 0)

\* all goroutines have returned a node of a ring that holds two nodes, and a
\* RemoveKey or GetNode for another key ran while they were racing
ConcurrentAssignWitness ==
    /\ callArg # NoID
    /\ \A c \in 1..Callers : pc[c] = "done" /\ callRet[c] \in DOMAIN nodes
    /\ Cardinality(DOMAIN nodes) = 2
    /\ snap = NoSnap

\* C30: on the simple ring, when ReleaseKey(k) follows a GetNode(k) that
\* returned a node, with no call in between, every node's load is what it was
\* before that GetNode.
ReleaseRestoresLoads ==
    (chLast.op = "ReleaseKey" /\ chLast.prev = "GetNode" /\ chLast.err = ErrNil)
    => ChLoads = chLast.loads

\* floor(((totalLoad + 1) / nodeCount) * loadFactor)
LoadLimit(totalLoad, nodeCount) ==
    ((totalLoad + 1) * LoadFactorNum) \div (nodeCount * LoadFactorDen)

\* C31: on the simple ring no GetNode call raises a node's load above
\* floor(((totalLoad + 1) / nodeCount) * loadFactor), totalLoad being the sum
\* of the loads before the call: the node it returns was below that limit.
SimpleLoadBounded ==
    (chLast.op = "GetNode" /\ chLast.err = ErrNil)
    => ch.nodes[chLast.ret].load
          <= LoadLimit(SumOfLoads(DOMAIN ch.nodes) - 1, Cardinality(DOMAIN ch.nodes))

\* C32: on the simple ring, a GetNode(k) that follows a GetNode(k) with no
\* membership change in between returns the same node.
SimpleGetNodeDeterministic ==
    [][(/\ chLast.op = "GetNode" /\ chLast.err = ErrNil
        /\ chLast'.op = "GetNode" /\ chLast'.err = ErrNil
        /\ chLast'.arg = chLast.arg)
       => chLast'.ret = chLast.ret]_vars
====
